---- MODULE Spec2Model ----
(***************************************************************************)
(* Model of subcmd-rs: the CmdHandler subcommand resolver (handler.rs),    *)
(* the Message text accumulator (message.rs), the CmdWrapper (wrapper.rs)  *)
(* and the CmdResult outcome (result.rs).                                  *)
(*                                                                         *)
(* Text is a sequence of atoms.  Command names and argument tokens are     *)
(* spelled one character per atom, so that the option parser and the edit  *)
(* distance work on their characters; fixed literals of the program are    *)
(* kept as one atom per literal piece.                                     *)
(***************************************************************************)
EXTENDS Integers, Sequences, FiniteSets, TLC

(* ------------------------------ bounds --------------------------------- *)
\* largest number of registered commands
MaxCmds == 2
\* largest number of tokens after the program name in an argument vector
MaxArgs == 2
\* largest number of Message operations in one history
MaxOps == 3

(* --------------------------- string helpers ---------------------------- *)
Min2(x, y) == IF x < y THEN x ELSE y

MaxOf(S) == CHOOSE x \in S : \A y \in S : y <= x

RECURSIVE Flatten(_)
\* concatenation of a sequence of texts
Flatten(ss) == IF ss = <<>> THEN <<>> ELSE Head(ss) \o Flatten(Tail(ss))

\* String::contains : pat occurs in text as a contiguous run
Contains(text, pat) ==
    \E i \in 0..(Len(text) - Len(pat)) :
        \A k \in 1..Len(pat) : text[i + k] = pat[k]

StartsWith(text, pat) ==
    /\ Len(pat) <= Len(text)
    /\ \A k \in 1..Len(pat) : text[k] = pat[k]

RECURSIVE Spaces(_)
Spaces(n) == IF n <= 0 THEN <<>> ELSE <<" ">> \o Spaces(n - 1)

NL == <<"\n">>

\* the character U+0060, which a TLA+ string cannot hold
BackTick == "BACKTICK"

(* ------------------------- inputs of the model ------------------------- *)
\* command names used by the registered commands
NameAb == <<"a", "b">>
NameBac == <<"b", "a", "c">>
NameHel == <<"h", "e", "l">>
NameHelp == <<"h", "e", "l", "p">>

\* implementations of the Command trait: name(), description(), help()
Commands ==
    { [name |-> NameAb, description |-> <<"DESCR">>, help |-> <<"HELP">>],
      [name |-> NameAb, description |-> <<"DESCR another">>,
       help |-> <<"HELP another">>],
      [name |-> NameBac, description |-> <<"DESCR">>, help |-> <<"HELP">>],
      [name |-> NameHel, description |-> <<"DESCR">>, help |-> <<"HELP">>],
      [name |-> NameHelp, description |-> <<"DESCR">>, help |-> <<"HELP">>] }

\* command line tokens: the two spellings of the help flag, a flag that is
\* not declared, and free tokens at several distances of the names above
\* (the bare tokens "-" and "--" are left out)
TokH == <<"-", "h">>
TokLongHelp == <<"-", "-", "h", "e", "l", "p">>
TokX == <<"-", "x">>
TokAbc == <<"a", "b", "c">>
TokB == <<"b">>

Tokens == {TokH, TokLongHelp, TokX, NameAb, TokAbc, TokB, NameHelp}

\* args[0] of the process and of an overriding vector
EnvProg == <<"exe">>
Bin == <<"bin">>

RECURSIVE SeqsUpTo(_, _)
SeqsUpTo(S, n) ==
    IF n = 0 THEN {<<>>}
    ELSE LET shorter == SeqsUpTo(S, n - 1)
         IN  shorter \cup {Append(s, x) : s \in {t \in shorter : Len(t) = n - 1}, x \in S}

\* vectors handed to override_args: the empty vector, or a program name
\* followed by at most MaxArgs tokens
ArgVectors == {<<>>} \cup {<<Bin>> \o r : r \in SeqsUpTo(Tokens, MaxArgs)}

Descriptions == {<<"DESCRIPTION">>}

\* text fragments handed to Message::add and Message::add_line
Fragments == {<<>>, <<"a">>, <<"\n">>, <<"a", "\n">>}

(* ------------------------------- state --------------------------------- *)
VARIABLES
    description,   \* CmdHandler.description : <<>> is None, <<d>> is Some(d)
    commands,      \* CmdHandler.commands, in registration order
    program_name,  \* CmdHandler.program_name
    args,          \* CmdHandler.args
    phase,         \* "new" while the builder is alive, then "parsed" or "ran"
    result,        \* the CmdResult returned by parse, or the panic
    calls,         \* the calls of Command::run made so far: command and argv
    out,           \* what was printed on stdout
    formated,      \* the platform: cfg!(target_os = "macos" or "linux")
    msg,           \* a Message under test
    log,           \* the operations applied to msg, with what they returned
    registered     \* history: the commands handed to add, in call order

vars == <<description, commands, program_name, args, phase, result, calls,
          out, formated, msg, log, registered>>

(* ------------------------------ Message -------------------------------- *)
\* Message::new
Message_new == [text |-> <<>>, is_error |-> FALSE, formated |-> formated]

\* Message::get : a copy of the internal string
get(m) == m.text

\* ansi_term Red.paint(s).to_string()
RedPaint(s) == <<"ESC[31m">> \o s \o <<"ESC[0m">>

\* a getf that colours every error message, whatever the platform
getf_any_platform(m) == IF m.is_error THEN RedPaint(get(m)) ELSE get(m)

\* Message::getf
getf(m) == IF m.is_error /\ m.formated THEN RedPaint(get(m)) ELSE get(m)

\* Message::add : text.push_str(txt)
add(m, txt) == [m EXCEPT !.text = m.text \o txt]

\* an add_line that forgets the newline
add_line_bare(m, line) == add(m, line)

\* Message::add_line : add(line); add("\n")
add_line(m, line) == add(add(m, line), NL)

\* Message::set_error
set_error(m, state) == [m EXCEPT !.is_error = state]

(* ------------------------ getopts, as configured ----------------------- *)
\* getopts is_arg : a token of more than one character starting with '-'
is_arg(tok) == Len(tok) > 1 /\ tok[1] = "-"

\* number of times token tok gives the flag -h/--help, or -1 when it names
\* an option that was not declared (only optflag("h", "help", ..) is)
FlagCount(tok) ==
    IF tok[2] = "-"
    THEN IF SubSeq(tok, 3, Len(tok)) = <<"h", "e", "l", "p">> THEN 1 ELSE -1
    ELSE IF \A k \in 2..Len(tok) : tok[k] = "h" THEN Len(tok) - 1 ELSE -1

RECURSIVE ScanOpts(_, _, _)
\* the scanning loop of Options::parse with ParsingStyle::StopAtFirstFree:
\* stops at the first free token, fails on an undeclared option
ScanOpts(toks, i, count) ==
    IF i > Len(toks) THEN [ok |-> TRUE, count |-> count, free |-> <<>>]
    ELSE IF ~is_arg(toks[i])
         THEN [ok |-> TRUE, count |-> count, free |-> SubSeq(toks, i, Len(toks))]
    ELSE IF FlagCount(toks[i]) < 0
         THEN [ok |-> FALSE, count |-> count, free |-> <<>>]
    ELSE ScanOpts(toks, i + 1, count + FlagCount(toks[i]))

\* opts.parse(&self.args[1..]) : Ok(matches) or Err; an optflag given more
\* than once is an error (OptionDuplicated)
opts_parse(toks) ==
    LET r == ScanOpts(toks, 1, 0)
    IN  IF r.ok /\ r.count <= 1
        THEN [ok |-> TRUE, h |-> r.count = 1, free |-> r.free]
        ELSE [ok |-> FALSE, h |-> FALSE, free |-> <<>>]

\* opts.usage(brief) : brief, a blank line, "Options:" and one row per option
opts_usage(brief) ==
    brief \o NL \o NL \o <<"Options:">> \o NL
          \o <<"    -h, --help", "          ", "print this help menu">> \o NL

(* ------------------------- strsim edit distance ------------------------ *)
\* strsim::damerau_levenshtein : insertions, deletions, substitutions and
\* transpositions of adjacent characters
damerau_levenshtein(a, b) ==
    LET inf == Len(a) + Len(b)
        d[i \in 0..Len(a), j \in 0..Len(b)] ==
            IF i = 0 THEN j
            ELSE IF j = 0 THEN i
            ELSE LET cost == IF a[i] = b[j] THEN 0 ELSE 1
                     k == MaxOf({x \in 1..(i - 1) : a[x] = b[j]} \cup {0})
                     l == MaxOf({x \in 1..(j - 1) : b[x] = a[i]} \cup {0})
                     trans == IF k = 0 \/ l = 0 THEN inf
                              ELSE d[k - 1, l - 1] + (i - k - 1) + 1 + (j - l - 1)
                 IN  Min2(Min2(d[i - 1, j - 1] + cost, d[i - 1, j] + 1),
                          Min2(d[i, j - 1] + 1, trans))
    IN  d[Len(a), Len(b)]

(* ------------------------------ CmdWrapper ----------------------------- *)
\* CmdWrapper::new
CmdWrapper_new(cmd, argv) == [cmd |-> cmd, args |-> argv]

\* a run that hands the command its own arguments only
CmdWrapper_run_trimmed(wrap) == [cmd |-> wrap.cmd, argv |-> Tail(wrap.args)]

\* CmdWrapper::run : self.cmd.run(&self.args), recorded as a call
CmdWrapper_run(wrap) == [cmd |-> wrap.cmd, argv |-> wrap.args]

(* ------------------------------ CmdHandler ----------------------------- *)
\* the suggestion threshold: lowest_sim starts at 3
LowestSimInit == 3

\* the handler as a value
Self == [description |-> description, commands |-> commands,
         program_name |-> program_name, args |-> args]

\* Vec::remove(index), 1-based
Remove(cmds, index) ==
    SubSeq(cmds, 1, index - 1) \o SubSeq(cmds, index + 1, Len(cmds))

\* CmdHandler::short_usage
short_usage(self) ==
    <<"Usage", ":">> \o NL
    \o <<"\t">> \o self.program_name \o <<" <command> [<args>...]">> \o NL
    \o <<"\t">> \o self.program_name \o <<" [options]">>

\* rows written last command first
tab_rows_reversed(cmds) ==
    LET width == MaxOf({4 + Len(cmds[i].name) : i \in 1..Len(cmds)}) + 2
        row(c) == Spaces(4) \o c.name \o Spaces(width - (4 + Len(c.name)))
                  \o c.description \o NL
    IN  Flatten([i \in 1..Len(cmds) |-> row(cmds[Len(cmds) + 1 - i])])

\* the TabWriter of help(): one row "    name<TAB>description" per command,
\* the name cell padded to the widest cell plus two
tab_rows(cmds) ==
    LET width == MaxOf({4 + Len(cmds[i].name) : i \in 1..Len(cmds)}) + 2
        row(c) == Spaces(4) \o c.name \o Spaces(width - (4 + Len(c.name)))
                  \o c.description \o NL
    IN  Flatten([i \in 1..Len(cmds) |-> row(cmds[i])])

\* CmdHandler::help
help(self) ==
    LET brief == (IF self.description = <<>> THEN <<>>
                  ELSE self.description[1] \o NL \o NL) \o short_usage(self)
        m1 == add_line(Message_new, opts_usage(brief))
        m2 == add_line(m1, <<"Commands are:">>)
        m3 == add_line(m2, tab_rows(self.commands))
        m4 == add_line(m3, NL \o <<"See '">> \o self.program_name
                           \o <<" help <command>' for more information ">>)
        m5 == add_line(m4, <<"on a specific command.">>)
    IN  [tag |-> "Help", msg |-> m5]

\* CmdHandler::bad_usage
bad_usage(self) ==
    LET m1 == set_error(Message_new, TRUE)
        m2 == add_line(m1, <<"Invalid arguments.">>)
        m3 == add_line(m2, short_usage(self))
    IN  [tag |-> "BadUsage", msg |-> m3]

\* a lookup that keeps scanning and returns the last match
find_command_last(cmds, name) ==
    IF \E i \in 1..Len(cmds) : cmds[i].name = name
    THEN MaxOf({i \in 1..Len(cmds) : cmds[i].name = name})
    ELSE 0

\* the lookup loops of parse and help_for_command: the first index whose
\* command has that name, 0 when there is none
find_command(cmds, name) ==
    IF \E i \in 1..Len(cmds) : cmds[i].name = name
    THEN CHOOSE i \in 1..Len(cmds) :
            /\ cmds[i].name = name
            /\ \A j \in 1..(i - 1) : cmds[j].name # name
    ELSE 0

RECURSIVE sim_scan_last(_, _, _, _, _)
\* a similarity loop that compares with <= : the last of the nearest wins
sim_scan_last(cmds, command, i, lowest_sim, sim_cmd) ==
    IF i > Len(cmds) THEN sim_cmd
    ELSE LET new_sim == damerau_levenshtein(cmds[i].name, command)
         IN  IF new_sim <= lowest_sim /\ new_sim < LowestSimInit
             THEN sim_scan_last(cmds, command, i + 1, new_sim, i)
             ELSE sim_scan_last(cmds, command, i + 1, lowest_sim, sim_cmd)

RECURSIVE sim_scan(_, _, _, _, _)
\* the similarity loop of parse: index of sim_cmd (0 is None) once the
\* commands from i on are scanned
sim_scan(cmds, command, i, lowest_sim, sim_cmd) ==
    IF i > Len(cmds) THEN sim_cmd
    ELSE LET new_sim == damerau_levenshtein(cmds[i].name, command)
         IN  IF new_sim < lowest_sim
             THEN sim_scan(cmds, command, i + 1, new_sim, i)
             ELSE sim_scan(cmds, command, i + 1, lowest_sim, sim_cmd)

\* the end of parse, once no command and no built-in matched
no_command_found(self, command) ==
    LET sim_cmd == sim_scan(self.commands, command, 1, LowestSimInit, 0)
    IN  IF sim_cmd # 0
        THEN LET m1 == set_error(Message_new, TRUE)
                 m2 == add_line(m1, <<"No such subcommand">> \o NL)
                 m3 == add_line(m2, <<"    Did you mean ", BackTick>>
                                    \o self.commands[sim_cmd].name
                                    \o <<BackTick, "?">>)
             IN  [tag |-> "BadUsage", msg |-> m3]
        ELSE LET m1 == set_error(Message_new, TRUE)
                 m2 == add_line(m1, <<"No such subcommand">>)
             IN  [tag |-> "UnknowCmd", msg |-> m2]

\* a help_for_command that treats an unknown target as an unknown command
help_for_command_suggest(self, name) ==
    LET index == find_command(self.commands, name)
    IN  IF index # 0
        THEN [result |-> [tag |-> "HelpForCmd",
                          wrap |-> CmdWrapper_new(self.commands[index], self.args)],
              commands |-> Remove(self.commands, index)]
        ELSE [result |-> no_command_found(self, name), commands |-> self.commands]

\* CmdHandler::help_for_command : the outcome and the registry left
help_for_command(self, name) ==
    LET index == find_command(self.commands, name)
    IN  IF index # 0
        THEN [result |-> [tag |-> "HelpForCmd",
                          wrap |-> CmdWrapper_new(self.commands[index], self.args)],
              commands |-> Remove(self.commands, index)]
        ELSE [result |-> bad_usage(self), commands |-> self.commands]

\* a help request that ignores the other arguments
help_requested_always(self, free) == help(self)

\* parse, once -h/--help is seen: it allows no other argument
help_requested(self, free) ==
    IF Len(free) # 0 THEN bad_usage(self) ELSE help(self)

\* parse, from the lookup of the command on: the outcome and the registry left
dispatch(self, free) ==
    LET command == free[1]
        index == find_command(self.commands, command)
    IN  IF index # 0
        THEN [result |-> [tag |-> "Cmd",
                          wrap |-> CmdWrapper_new(self.commands[index], self.args)],
              commands |-> Remove(self.commands, index)]
        ELSE IF command = <<"h", "e", "l", "p">> /\ Len(free) = 2
        THEN help_for_command(self, free[2])
        ELSE [result |-> no_command_found(self, command),
              commands |-> self.commands]

\* a parse that goes on without the flags when an option is not declared
parse_ignoring_errors(self) ==
    IF Len(self.args) = 0
    THEN [result |-> [tag |-> "Panic"], commands |-> self.commands]
    ELSE
    LET matches == opts_parse(Tail(self.args))
        free == SelectSeq(Tail(self.args), LAMBDA tok : ~is_arg(tok))
    IN  IF ~matches.ok
        THEN IF free = <<>>
             THEN [result |-> help(self), commands |-> self.commands]
             ELSE dispatch(self, free)
        ELSE IF matches.h
        THEN [result |-> help_requested(self, matches.free),
              commands |-> self.commands]
        ELSE IF matches.free = <<>>
        THEN [result |-> bad_usage(self), commands |-> self.commands]
        ELSE dispatch(self, matches.free)

\* CmdHandler::parse : the outcome and the registry left.  &self.args[1..]
\* panics on an empty vector
parse(self) ==
    IF Len(self.args) = 0
    THEN [result |-> [tag |-> "Panic"], commands |-> self.commands]
    ELSE
    LET matches == opts_parse(Tail(self.args))
    IN  IF ~matches.ok
        THEN [result |-> bad_usage(self), commands |-> self.commands]
        ELSE IF matches.h
        THEN [result |-> help_requested(self, matches.free),
              commands |-> self.commands]
        ELSE IF matches.free = <<>>
        THEN [result |-> bad_usage(self), commands |-> self.commands]
        ELSE dispatch(self, matches.free)

\* the match of CmdHandler::run on the outcome of parse: the calls of
\* Command::run it makes and what it prints
run_calls(res) ==
    IF res.tag = "Cmd" THEN <<CmdWrapper_run(res.wrap)>> ELSE <<>>

run_prints(res) ==
    IF res.tag \in {"Help", "BadUsage", "UnknowCmd"} THEN getf(res.msg) \o NL
    ELSE IF res.tag = "HelpForCmd" THEN res.wrap.cmd.help \o NL
    ELSE <<>>

(* ------------------------------- actions -------------------------------- *)
HandlerInit ==
    /\ description = <<>>
    /\ commands = <<>>
    /\ program_name = EnvProg
    /\ args = <<EnvProg>>
    /\ phase = "new"
    /\ result = [tag |-> "None"]
    /\ calls = <<>>
    /\ out = <<>>
    /\ registered = <<>>

\* CmdHandler::new
Init ==
    /\ HandlerInit
    /\ formated \in BOOLEAN
    /\ msg = Message_new
    /\ log = <<>>

\* CmdHandler::set_description
SetDescription ==
    /\ phase = "new"
    /\ \E descr \in Descriptions : description' = <<descr>>
    /\ UNCHANGED <<commands, program_name, args, phase, result, calls, out,
                   formated, msg, log, registered>>

\* CmdHandler::override_args.  A later call replaces the vector of an
\* earlier one, so only the first call on a handler is explored: any other
\* leads to a state that one call reaches
OverrideArgs ==
    /\ phase = "new"
    /\ args = <<EnvProg>>
    /\ \E a \in ArgVectors : args' = a
    /\ UNCHANGED <<description, commands, program_name, phase, result, calls,
                   out, formated, msg, log, registered>>

\* CmdHandler::add.  A Box<Command> is moved into the handler, so each
\* command value is registered at most once
Add ==
    /\ phase = "new"
    /\ Len(commands) < MaxCmds
    /\ \E command \in Commands :
           /\ \A i \in 1..Len(commands) : commands[i] # command
           /\ commands' = Append(commands, command)
           /\ registered' = Append(registered, command)
    /\ UNCHANGED <<description, program_name, args, phase, result, calls, out,
                   formated, msg, log>>

\* CmdHandler::parse, called by the embedding program
Parse ==
    /\ phase = "new"
    /\ \E r \in {parse(Self)} :
           /\ result' = r.result
           /\ commands' = r.commands
    /\ phase' = "parsed"
    /\ UNCHANGED <<description, program_name, args, calls, out, formated, msg, log, registered>>

\* CmdHandler::run
Run ==
    /\ phase = "new"
    /\ \E r \in {parse(Self)} :
           /\ result' = r.result
           /\ commands' = r.commands
           /\ calls' = calls \o run_calls(r.result)
           /\ out' = out \o run_prints(r.result)
    /\ phase' = "ran"
    /\ UNCHANGED <<description, program_name, args, formated, msg, log, registered>>

Next == SetDescription \/ OverrideArgs \/ Add \/ Parse \/ Run

Spec == Init /\ [][Next]_vars

(* --------------------- a Message driven by its caller ------------------ *)
Entry(op, txt, state, ret) == [op |-> op, txt |-> txt, state |-> state, ret |-> ret]

HandlerUnchanged ==
    UNCHANGED <<description, commands, program_name, args, phase, result,
                calls, out, formated, registered>>

\* msg.add(txt)
MsgAdd ==
    /\ Len(log) < MaxOps
    /\ \E txt \in Fragments :
           /\ msg' = add(msg, txt)
           /\ log' = Append(log, Entry("add", txt, FALSE, <<>>))
    /\ HandlerUnchanged

\* msg.add_line(line)
MsgAddLine ==
    /\ Len(log) < MaxOps
    /\ \E line \in Fragments :
           /\ msg' = add_line(msg, line)
           /\ log' = Append(log, Entry("add_line", line, FALSE, <<>>))
    /\ HandlerUnchanged

\* msg.set_error(state)
MsgSetError ==
    /\ Len(log) < MaxOps
    /\ \E state \in BOOLEAN :
           /\ msg' = set_error(msg, state)
           /\ log' = Append(log, Entry("set_error", <<>>, state, <<>>))
    /\ HandlerUnchanged

\* msg.get() : takes &self
MsgGet ==
    /\ Len(log) < MaxOps
    /\ msg' = msg
    /\ log' = Append(log, Entry("get", <<>>, FALSE, get(msg)))
    /\ HandlerUnchanged

\* msg.getf() : takes &self
MsgGetf ==
    /\ Len(log) < MaxOps
    /\ msg' = msg
    /\ log' = Append(log, Entry("getf", <<>>, FALSE, getf(msg)))
    /\ HandlerUnchanged

MsgNext == MsgAdd \/ MsgAddLine \/ MsgSetError \/ MsgGet \/ MsgGetf

SpecMsg == Init /\ [][MsgNext]_vars

(* ------------------------- vocabulary of the claims -------------------- *)
\* parse has returned (or faulted), called directly or by run
Done == phase \in {"parsed", "ran"}

\* a token written as a flag
LooksLikeFlag(tok) == Len(tok) > 0 /\ tok[1] = "-"

HelpFlags == {TokH, TokLongHelp}

LeastOf(S) == CHOOSE x \in S : \A y \in S : x <= y

\* positions, in registration order, of the commands named name
NamedAt(name) == {i \in 1..Len(registered) : registered[i].name = name}

\* the tokens after the program name
ArgTokens == IF Len(args) = 0 THEN <<>> ELSE Tail(args)

\* position in ArgTokens of the first token not written as a flag, 0 if none
FirstFreeAt ==
    LET S == {i \in 1..Len(ArgTokens) : ~LooksLikeFlag(ArgTokens[i])}
    IN  IF S = {} THEN 0 ELSE LeastOf(S)

\* the flags given before the first free token
LeadingFlags ==
    IF FirstFreeAt = 0 THEN ArgTokens ELSE SubSeq(ArgTokens, 1, FirstFreeAt - 1)

\* the free tokens: the first one and everything after it
FreeTokens ==
    IF FirstFreeAt = 0 THEN <<>> ELSE SubSeq(ArgTokens, FirstFreeAt, Len(ArgTokens))

DidYouMean == "    Did you mean "

SuggestionLine(name) == <<DidYouMean, BackTick>> \o name \o <<BackTick, "?">>

InvalidArgumentsText == <<"Invalid arguments.">> \o NL \o short_usage(Self) \o NL

\* the Malformed outcome with its message
IsMalformed(res) ==
    /\ res.tag = "BadUsage"
    /\ res.msg.is_error
    /\ StartsWith(get(res.msg), <<"Invalid arguments.">>)
    /\ get(res.msg) = InvalidArgumentsText

\* the first free token names no command, and the request is not `help <target>`
NotFoundCase ==
    /\ Done
    /\ Len(args) >= 1
    /\ LeadingFlags = <<>>
    /\ FreeTokens # <<>>
    /\ NamedAt(FreeTokens[1]) = {}
    /\ ~(FreeTokens[1] = NameHelp /\ Len(FreeTokens) = 2)

(* -------------------------------- claims -------------------------------- *)
\* C1: when the token right after the program name is not a flag and names
\* a registered command, parse returns Cmd wrapping the first command of
\* that name in registration order, whatever tokens follow
C1_DispatchFirstMatch ==
    (/\ Done
     /\ Len(args) >= 2
     /\ ~LooksLikeFlag(args[2])
     /\ NamedAt(args[2]) # {})
    => /\ result.tag = "Cmd"
       /\ result.wrap.cmd = registered[LeastOf(NamedAt(args[2]))]

\* two commands share the requested name and an undeclared flag follows it
C1_Witness ==
    /\ phase = "parsed"
    /\ Len(args) = 3
    /\ args[3] = TokX
    /\ Cardinality(NamedAt(args[2])) = 2
    /\ result.tag = "Cmd"

\* C2: a command name that is not found but has a registered name at
\* distance less than 3 yields UnknowCmd, error-flagged, with "No such
\* subcommand" and a "Did you mean" line; never BadUsage
C2_NearMissIsUnknowCmd ==
    (/\ NotFoundCase
     /\ \E i \in 1..Len(registered) :
            damerau_levenshtein(registered[i].name, FreeTokens[1]) < 3)
    => /\ result.tag = "UnknowCmd"
       /\ result.msg.is_error
       /\ Contains(get(result.msg), <<"No such subcommand">>)
       /\ Contains(get(result.msg), <<DidYouMean>>)

\* C3: an undeclared flag before the first free token yields BadUsage with
\* the error-flagged "Invalid arguments." message and the short usage, even
\* when -h/--help or a registered command name is given as well
C3_UnknownFlagIsBadUsage ==
    (/\ Done
     /\ \E i \in 1..Len(LeadingFlags) : LeadingFlags[i] \notin HelpFlags)
    => IsMalformed(result)

\* an undeclared flag comes after a help flag
C3_Witness ==
    /\ phase = "parsed"
    /\ Len(args) = 3
    /\ args[2] \in HelpFlags
    /\ args[3] = TokX
    /\ IsMalformed(result)

\* the rows of the help listing, one per registered command in registration
\* order: indentation, name, padding, description, newline
ListedRows(indent, pads) ==
    Flatten([i \in 1..Len(registered) |->
                Spaces(indent) \o registered[i].name \o Spaces(pads[i])
                \o registered[i].description \o NL])

PadWidths == 1..(MaxOf({Len(c.name) : c \in Commands}) + 2)

\* C4: a lone -h or --help yields Help, not error-flagged, whose message
\* contains "Usage" and "Commands are:" and lists after that header exactly
\* one row per registered command, in registration order, with its name and
\* its description
C4_HelpListsCommands ==
    (/\ Done
     /\ Len(args) = 2
     /\ args[2] \in HelpFlags)
    => /\ result.tag = "Help"
       /\ ~result.msg.is_error
       /\ Contains(get(result.msg), <<"Usage">>)
       /\ Contains(get(result.msg), <<"Commands are:">>)
       /\ \E indent \in 0..4 : \E pads \in [1..Len(registered) -> PadWidths] :
              Contains(get(result.msg),
                       <<"Commands are:">> \o NL \o ListedRows(indent, pads)
                       \o NL \o NL \o <<"See '">>)

\* help is asked with --help while two commands of different name lengths
\* are registered
C4_Witness ==
    /\ phase = "parsed"
    /\ args = <<Bin, TokLongHelp>>
    /\ Len(registered) = 2
    /\ Len(registered[1].name) # Len(registered[2].name)
    /\ result.tag = "Help"

\* C5: for [prog, "help", t] and no command named "help": HelpForCmd
\* wrapping the first command named t if there is one, otherwise BadUsage
\* "Invalid arguments." and never UnknowCmd nor a "Did you mean" line
C5_HelpForCommand ==
    (/\ Done
     /\ Len(args) = 3
     /\ args[2] = NameHelp
     /\ NamedAt(NameHelp) = {})
    => IF NamedAt(args[3]) # {}
       THEN /\ result.tag = "HelpForCmd"
            /\ result.wrap.cmd = registered[LeastOf(NamedAt(args[3]))]
       ELSE /\ IsMalformed(result)
            /\ ~Contains(get(result.msg), <<DidYouMean>>)

\* help is asked for a target that is no command but is one edit away from
\* a registered name
C5_Witness ==
    /\ phase = "parsed"
    /\ args = <<Bin, NameHelp, TokAbc>>
    /\ NamedAt(NameAb) # {}
    /\ NamedAt(NameHelp) = {}
    /\ result.tag = "BadUsage"

\* C6: run calls Command::run if and only if parse yields Cmd, and then
\* once, on the matched command, with the whole argument vector
C6_RunCallsMatchedCommandOnce ==
    (phase = "ran")
    => /\ (result.tag = "Cmd") <=> (calls # <<>>)
       /\ result.tag = "Cmd" =>
              calls = << [cmd |-> registered[LeastOf(NamedAt(FreeTokens[1]))],
                          argv |-> args] >>

\* run has dispatched a command that was given an argument of its own
C6_Witness ==
    /\ phase = "ran"
    /\ Len(calls) = 1
    /\ Len(args) = 3
    /\ calls[1].argv[1] = Bin

\* C7: parse returns one of the five CmdResult variants for every registry
\* and every argument vector, and never faults
C7_ParseAlwaysReturns ==
    Done => result.tag \in {"Help", "HelpForCmd", "BadUsage", "UnknowCmd", "Cmd"}

\* what an operation of the log appends to the buffer
Contribution(e) ==
    IF e.op = "add" THEN e.txt
    ELSE IF e.op = "add_line" THEN e.txt \o <<"\n">>
    ELSE <<>>

\* the fragments appended by the first n operations, concatenated
Appended(n) == Flatten([i \in 1..n |-> Contribution(log[i])])

\* C8: get() is the concatenation, in call order, of the fragments appended
\* so far (x for add(x), x and one newline for add_line(x)); get, getf and
\* set_error leave the buffer alone, so two get() in a row return the same
C8_GetIsConcatenation ==
    /\ get(msg) = Appended(Len(log))
    /\ \A i \in 1..Len(log) : log[i].op = "get" => log[i].ret = Appended(i - 1)
    /\ \A i \in 1..(Len(log) - 1) :
           (log[i].op = "get" /\ log[i + 1].op = "get") => log[i].ret = log[i + 1].ret

\* a line that itself ends with a newline is added, then read twice
C8_Witness ==
    /\ Len(log) = 3
    /\ log[1].op = "add_line"
    /\ log[1].txt = <<"a", "\n">>
    /\ log[2].op = "get"
    /\ log[3].op = "get"
    /\ log[3].ret = <<"a", "\n", "\n">>

\* distance of the i-th registered name to the requested token
DistanceTo(tok, i) == damerau_levenshtein(registered[i].name, tok)

\* the first command, in registration order, among the nearest to tok
Nearest(tok) ==
    LET least == LeastOf({DistanceTo(tok, i) : i \in 1..Len(registered)})
    IN  LeastOf({i \in 1..Len(registered) : DistanceTo(tok, i) = least})

\* number of "Did you mean" lines of a text
SuggestionCount(text) == Cardinality({k \in 1..Len(text) : text[k] = DidYouMean})

\* C9: when the command is not found, the suggestion is the first command in
\* registration order among the nearest ones, and the "Did you mean" line
\* naming it is present exactly when that distance is less than 3; with no
\* name that near, or no command at all, the result is UnknowCmd with "No
\* such subcommand" and no suggestion
C9_SuggestFirstNearest ==
    NotFoundCase =>
        LET tok == FreeTokens[1]
            text == get(result.msg)
        IN  /\ Contains(text, <<"No such subcommand">>)
            /\ IF registered # <<>> /\ DistanceTo(tok, Nearest(tok)) < 3
               THEN /\ Contains(text, SuggestionLine(registered[Nearest(tok)].name))
                    /\ SuggestionCount(text) = 1
               ELSE /\ result.tag = "UnknowCmd"
                    /\ SuggestionCount(text) = 0

\* two commands of different names are equally near the requested token,
\* and the first registered is the one suggested
C9_Witness ==
    /\ phase = "parsed"
    /\ args = <<Bin, TokAbc>>
    /\ Len(registered) = 2
    /\ registered[1].name = NameBac
    /\ registered[2].name = NameAb
    /\ Contains(get(result.msg), SuggestionLine(NameBac))

\* the help flag is among the flags given
HelpFlagGiven == \E i \in 1..Len(LeadingFlags) : LeadingFlags[i] \in HelpFlags

\* C10: when the flags parse without error, parse returns BadUsage with the
\* error-flagged "Invalid arguments." message and the short usage (a) when
\* -h/--help comes with a free token, registered command or not, and (b)
\* when there is neither -h/--help nor a free token
C10_HelpNotAloneOrNothing ==
    (/\ Done
     /\ Len(args) >= 1
     /\ opts_parse(ArgTokens).ok
     /\ \/ HelpFlagGiven /\ FreeTokens # <<>>
        \/ ~HelpFlagGiven /\ FreeTokens = <<>>)
    => IsMalformed(result)

\* -h is followed by the name of a registered command
C10_Witness ==
    /\ phase = "parsed"
    /\ Len(args) = 3
    /\ args[2] = TokH
    /\ NamedAt(args[3]) # {}
    /\ IsMalformed(result)

\* the step is a call of set_error on msg
SetErrorStep ==
    /\ Len(log') = Len(log) + 1
    /\ log'[Len(log')].op = "set_error"

\* in every Message state the rendered form is the raw form unless the
\* error flag and the platform flag are both set, and a Message on which
\* nothing was called has an empty buffer and no error flag
RenderedIsRawUnlessErrorAndFormated ==
    /\ (getf(msg) # get(msg)) => (msg.is_error /\ msg.formated)
    /\ (~msg.is_error \/ ~msg.formated) => getf(msg) = get(msg)
    /\ log = <<>> => (get(msg) = <<>> /\ ~msg.is_error)

\* set_error sets the error flag to its argument and nothing else
SetErrorFrame ==
    SetErrorStep =>
        /\ msg'.is_error = log'[Len(log')].state
        /\ msg'.text = msg.text
        /\ msg'.formated = msg.formated

\* C11: getf() differs from get() only when both the error flag and the
\* platform colour flag are set, and equals it when either is unset;
\* set_error changes the error flag only, leaving the buffer and the colour
\* flag as they were; a new Message has an empty buffer and no error flag
C11_RenderingAndSetErrorFrame ==
    [](RenderedIsRawUnlessErrorAndFormated) /\ [][SetErrorFrame]_vars

\* on a platform without colours, text was added and the error flag was
\* then set: the rendered form is still the raw text
C11_Witness ==
    /\ Len(log) = 2
    /\ log[1].op = "add_line"
    /\ log[1].txt = <<"a">>
    /\ log[2].op = "set_error"
    /\ msg.is_error
    /\ ~msg.formated
    /\ getf(msg) = <<"a", "\n">>

====
